---- MODULE Spec2Model ----
(***************************************************************************)
(* Navigation core of GPSBUS: the RouteResult component                    *)
(* (src/components/RouteResult.tsx).                                       *)
(*                                                                         *)
(* Numbers.  A JavaScript number is an integer in a fixed unit, or one of  *)
(* the sentinels NaN (NaN and the infinities), Undef (undefined) and Null  *)
(* (null).  No arithmetic is ever done on a sentinel: the code guards      *)
(* every computation with isSafeNumber.                                    *)
(*   latitude      decimetres of meridian arc (R = 6371000 m)              *)
(*   longitude     1e-4 degrees; every safe longitude of the model is the  *)
(*                 meridian of SAFE_DEFAULT_CENTER, where the haversine    *)
(*                 distance of two points is exactly R * |dLat| and the    *)
(*                 bearing is 0 (north) or 180 (south)                     *)
(*   speed         1e-2 km/h;  a fix's speed: 1e-2 m/s                     *)
(*   progressRef   1/PScale of a path segment                              *)
(*   distances     decimetres before Math.round, metres after              *)
(*                                                                         *)
(* React.  A handler (fix callback, animation frame, button) runs          *)
(* atomically and reads stepIndex and speed from the closure of the render *)
(* whose effect created it; state setters take effect on the state at      *)
(* once (functional updates apply to the latest state).  The lifecycle     *)
(* effect re-runs later, as the separate action Effect, whenever one of    *)
(* its dependencies changed: until then the old callback stays subscribed  *)
(* with its captured values.                                               *)
(***************************************************************************)
EXTENDS Integers, Sequences, FiniteSets, TLC

VARIABLES
  route,          \* the route prop: [steps, path]
  geoSupported,   \* navigator.geolocation exists
  speechOn,       \* window.speechSynthesis exists
  stepIndex, isDriving, gpsMode, distanceToNext,
  vehiclePos, heading, speed, gpsAccuracy,       \* useState
  reqRef,         \* reqRef.current is a request id (TRUE) or null (FALSE)
  progressRef,
  watchIdRef,     \* watchIdRef.current is a watch id (TRUE) or null (FALSE)
  announcedRef,   \* Set<string>, a key is <<step, tag>>
  rafs,           \* pending requestAnimationFrame callbacks (closures)
  watches,        \* active watchPosition subscriptions (closures)
  effDeps,        \* dependency values of the last run of the lifecycle effect
  speechQueue,    \* window.speechSynthesis: utterances speaking or queued
  lag,            \* handlers run since the effect's dependencies changed
  emitCount,      \* history: number of speak() calls per announcement key
  inBandSeen,     \* history: <<i, tag>> when a fix processed while the step
                  \* index was i had its rounded distance to S[i+1] in the
                  \* band of tag
  ev,             \* history: the last handler and the speak() calls it made
  camera          \* the map of MapController: viewport centre and zoom, the
                  \* initialized ref, the pending 250 ms timer, the
                  \* dependency values of the last run of its effects, and
                  \* history: who moved the viewport last, whether the
                  \* user has dragged the map

vars == <<route, geoSupported, speechOn, stepIndex, isDriving, gpsMode, distanceToNext,
          vehiclePos, heading, speed, gpsAccuracy, reqRef, progressRef,
          watchIdRef, announcedRef, rafs, watches, effDeps, speechQueue,
          lag, emitCount, inBandSeen, ev, camera>>

\* all variables but the camera
session == <<route, geoSupported, speechOn, stepIndex, isDriving, gpsMode, distanceToNext,
             vehiclePos, heading, speed, gpsAccuracy, reqRef, progressRef,
             watchIdRef, announcedRef, rafs, watches, effDeps, speechQueue,
             lag, emitCount, inBandSeen, ev>>

-----------------------------------------------------------------------------
\* Values

NaN   == 0 - 999999999
Undef == 0 - 999999998
Null  == 0 - 999999997

SAFE_LAT == 44941431
SAFE_LNG == -37038
SAFE_DEFAULT_CENTER == <<SAFE_LAT, SAFE_LNG>>

\* 95 degrees of latitude: a finite number outside [-90, 90]
OutOfRangeLat == 95 * 1111949

PScale == 100000

MaxQueue == 2

\* handlers that may run between a change of the lifecycle effect's
\* dependencies and the effect's next run
MaxLag == 1

isSafeNumber(val) == val \notin {NaN, Undef, Null}

isSafeCoordinate(coords) ==
  Len(coords) = 2 /\ isSafeNumber(coords[1]) /\ isSafeNumber(coords[2])

\* Number(x): undefined becomes NaN, null becomes 0
Number(x) == IF x = Undef THEN NaN ELSE IF x = Null THEN 0 ELSE x

Abs(x) == IF x < 0 THEN 0 - x ELSE x
Max(a, b) == IF a > b THEN a ELSE b
Min(a, b) == IF a < b THEN a ELSE b

\* Haversine distance in decimetres (both points on one meridian)
getDistance(lat1, lng1, lat2, lng2) ==
  IF ~isSafeNumber(lat1) \/ ~isSafeNumber(lng1)
     \/ ~isSafeNumber(lat2) \/ ~isSafeNumber(lng2)
  THEN 0
  ELSE Abs(lat2 - lat1)

\* Initial bearing in degrees (both points on one meridian)
getBearing(lat1, lng1, lat2, lng2) ==
  IF ~isSafeNumber(lat1) \/ ~isSafeNumber(lng1)
     \/ ~isSafeNumber(lat2) \/ ~isSafeNumber(lng2)
  THEN 0
  ELSE IF lat2 < lat1 THEN 180 ELSE 0

\* Math.round of a non-negative length in decimetres, in metres
MathRound(dm) == (dm + 5) \div 10

-----------------------------------------------------------------------------
\* Routes (the route prop).  A step: its approach coordinate start_location
\* (<<Undef, Undef>> when the step has none) and whether it carries a
\* hazardWarning.

Step(lat, lng, hazard) == [start_location |-> <<lat, lng>>, hazardWarning |-> hazard]
Pt(lat) == <<lat, SAFE_LNG>>

\* short polylines leaving the first step northwards: a segment of 0.2 m
\* followed by a degenerate one of 0.1 m; two degenerate segments
ShortPath == <<Pt(0), Pt(2), Pt(3)>>
TinyPath  == <<Pt(0), Pt(1), Pt(2)>>
\* a polyline with a single usable point
OnePointPath == <<Pt(0), <<NaN, SAFE_LNG>>, <<Undef, Undef>>>>

\* two steps 1000 m apart, the second with a hazard warning
RouteHazard ==
  [steps |-> <<Step(0, SAFE_LNG, FALSE), Step(10000, SAFE_LNG, TRUE)>>,
   path  |-> OnePointPath]
\* three steps, the last two 10 m apart
RouteNear ==
  [steps |-> <<Step(0, SAFE_LNG, FALSE), Step(10000, SAFE_LNG, FALSE),
               Step(10100, SAFE_LNG, FALSE)>>,
   path  |-> OnePointPath]
\* the second step has no start_location
RouteMissing ==
  [steps |-> <<Step(0, SAFE_LNG, FALSE), Step(Undef, Undef, TRUE)>>,
   path  |-> OnePointPath]
\* the second step has a NaN longitude
RouteNaN ==
  [steps |-> <<Step(0, SAFE_LNG, FALSE), Step(10000, NaN, TRUE)>>,
   path  |-> TinyPath]
\* three steps, the last without start_location
RouteGap ==
  [steps |-> <<Step(0, SAFE_LNG, FALSE), Step(10000, SAFE_LNG, FALSE),
               Step(Undef, Undef, FALSE)>>,
   path  |-> OnePointPath]
\* two steps 1000 m apart, no polyline: a path of the two step coordinates
RouteTwo ==
  [steps |-> <<Step(0, SAFE_LNG, FALSE), Step(10000, SAFE_LNG, FALSE)>>,
   path  |-> <<>>]
\* one step, polyline of two points
RouteOne ==
  [steps |-> <<Step(10000, SAFE_LNG, FALSE)>>,
   path  |-> <<Pt(0), Pt(10000)>>]
\* two steps 50 m apart, short polyline
RouteSim ==
  [steps |-> <<Step(0, SAFE_LNG, FALSE), Step(500, SAFE_LNG, TRUE)>>,
   path  |-> ShortPath]
\* one step, short polyline
RouteOneShort ==
  [steps |-> <<Step(10000, SAFE_LNG, FALSE)>>,
   path  |-> ShortPath]
\* two steps 50 m apart; a short polyline whose points are finite numbers at
\* 95 degrees of latitude
RouteOffMap ==
  [steps |-> <<Step(0, SAFE_LNG, FALSE), Step(500, SAFE_LNG, FALSE)>>,
   path  |-> <<Pt(OutOfRangeLat), Pt(OutOfRangeLat + 2), Pt(OutOfRangeLat + 3)>>]
\* no step, no polyline
RouteEmpty == [steps |-> <<>>, path |-> <<>>]

Routes == {RouteHazard, RouteNear, RouteMissing, RouteNaN, RouteGap, RouteOne,
           RouteSim, RouteOneShort, RouteEmpty}
\* the routes driven on devices without a location service
SimRoutes == {RouteSim, RouteOneShort}
\* the routes driven with speech synthesis
SpeechRoutes == {RouteHazard, RouteEmpty}

steps == route.steps

RECURSIVE FilterSafe(_)
FilterSafe(pts) ==
  IF pts = <<>> THEN <<>>
  ELSE IF isSafeCoordinate(Head(pts))
       THEN <<Head(pts)>> \o FilterSafe(Tail(pts))
       ELSE FilterSafe(Tail(pts))

RECURSIVE StepPoints(_)
StepPoints(ss) ==
  IF ss = <<>> THEN <<>>
  ELSE LET lat == Number(Head(ss).start_location[1])
           lng == Number(Head(ss).start_location[2])
       IN IF isSafeNumber(lat) /\ isSafeNumber(lng)
          THEN <<(<<lat, lng>>)>> \o StepPoints(Tail(ss))
          ELSE StepPoints(Tail(ss))

routePointsOf(r) ==
  LET points == IF Len(r.path) > 2 THEN FilterSafe(r.path) ELSE StepPoints(r.steps)
  IN IF Len(points) = 0 THEN <<SAFE_DEFAULT_CENTER>> ELSE points

routePoints == routePointsOf(route)

-----------------------------------------------------------------------------
\* Speech.  An utterance is identified by the kind of its text: a hazard
\* warning, a navigation instruction or a notice.

\* mutant: a priority utterance is queued like any other
speakNoCancel(q, text, priority) == Append(q, text)

\* speak(text, priority) on the queue q of window.speechSynthesis
speak(q, text, priority) ==
  IF priority THEN <<text>> ELSE Append(q, text)

\* the speak() calls "said" (in order) applied to q
RECURSIVE speakAll(_, _)
speakAll(q, said) ==
  IF said = <<>> THEN q
  ELSE speakAll(speak(q, Head(said).text, Head(said).priority), Tail(said))

\* the queue after the speak() calls "said": speak() returns at once when
\* window.speechSynthesis is missing
Speech(q, said) == IF speechOn THEN speakAll(q, said) ELSE q

Tags == {"haz-early", "haz-crit", "500m", "200m", "now"}
NoStep == 0 - 1
Finished == <<NoStep, "finished">>
MaxSteps == 3
Keys == ((0 .. MaxSteps) \X Tags) \cup {Finished}

\* emitCount after the speak() calls "said"; counts stop at 2
RECURSIVE countAll(_, _)
countAll(cnt, said) ==
  IF said = <<>> THEN cnt
  ELSE LET k == Head(said).key
       IN countAll(IF k \in Keys THEN [cnt EXCEPT ![k] = Min(2, @ + 1)] ELSE cnt,
                   Tail(said))

TextKind(tag) ==
  IF tag \in {"haz-early", "haz-crit"} THEN "hazard"
  ELSE IF tag \in {"500m", "200m", "now"} THEN "instruction"
  ELSE "notice"

Say(key, priority) == [key |-> key, text |-> TextKind(key[2]), priority |-> priority]

-----------------------------------------------------------------------------
\* checkNavigationLogic

\* One announcement block: if (cond && !announcedRef.current.has(key))
\* { speak(text, priority); announcedRef.current.add(key); }
\* acc = [said, ann]: the speak() calls made so far and the record.
\* mutant: the key is spoken but never added to the record
AnnounceNoRecord(acc, cond, key, priority) ==
  IF cond /\ key \notin acc.ann
  THEN [said |-> Append(acc.said, Say(key, priority)), ann |-> acc.ann]
  ELSE acc

Announce(acc, cond, key, priority) ==
  IF cond /\ key \notin acc.ann
  THEN [said |-> Append(acc.said, Say(key, priority)), ann |-> acc.ann \cup {key}]
  ELSE acc

NoNav(ann) ==
  [setDist |-> FALSE, dist |-> 0, said |-> <<>>, ann |-> ann,
   advance |-> FALSE, arrive |-> FALSE]

\* a trigger band: distMeters <= hi && distMeters > lo
inBand(distMeters, lo, hi) == distMeters <= hi /\ distMeters > lo

\* isSafeNumber(nLat) && isSafeNumber(nLng)
targetOk(nLat, nLng) == isSafeNumber(nLat) /\ isSafeNumber(nLng)

\* mutant: arrival is announced without consulting the record
arrivalAgain(i, ann) ==
  IF i = Len(steps) - 1
  THEN [setDist |-> TRUE, dist |-> 0, said |-> <<Say(Finished, FALSE)>>,
        ann |-> ann \cup {Finished}, advance |-> FALSE, arrive |-> TRUE]
  ELSE [setDist |-> TRUE, dist |-> 0, said |-> <<>>, ann |-> ann,
        advance |-> FALSE, arrive |-> FALSE]

\* the else branch of checkNavigationLogic: the last step is reached
arrival(i, ann) ==
  IF i = Len(steps) - 1 /\ Finished \notin ann
  THEN [setDist |-> TRUE, dist |-> 0, said |-> <<Say(Finished, FALSE)>>,
        ann |-> ann \cup {Finished}, advance |-> FALSE, arrive |-> TRUE]
  ELSE [setDist |-> TRUE, dist |-> 0, said |-> <<>>, ann |-> ann,
        advance |-> FALSE, arrive |-> FALSE]

\* checkNavigationLogic(currentLat, currentLng) in a render whose stepIndex
\* is i, with announcedRef.current = ann.  The result: whether and to what
\* distanceToNext is set, the speak() calls, the new record, whether
\* setStepIndex(prev => prev + 1) and setIsDriving(false) are called.
checkNavigationLogic(i, currentLat, currentLng, ann) ==
  IF i < Len(steps) - 1
  THEN LET nextStep == steps[i + 2]
           nLat == Number(nextStep.start_location[1])
           nLng == Number(nextStep.start_location[2])
       IN IF targetOk(nLat, nLng)
          THEN LET distMeters == MathRound(getDistance(currentLat, currentLng, nLat, nLng))
                   hz == nextStep.hazardWarning
                   a0 == [said |-> <<>>, ann |-> ann]
                   a1 == Announce(a0, hz /\ inBand(distMeters, 700, 800),
                                  <<i, "haz-early">>, TRUE)
                   a2 == Announce(a1, hz /\ inBand(distMeters, 150, 200),
                                  <<i, "haz-crit">>, TRUE)
                   a3 == Announce(a2, inBand(distMeters, 450, 500), <<i, "500m">>, FALSE)
                   a4 == Announce(a3, inBand(distMeters, 150, 200), <<i, "200m">>, FALSE)
                   a5 == Announce(a4, inBand(distMeters, 30, 50), <<i, "now">>, FALSE)
               IN [setDist |-> TRUE, dist |-> distMeters, said |-> a5.said,
                   ann |-> a5.ann, advance |-> distMeters < 25, arrive |-> FALSE]
          ELSE NoNav(ann)
  ELSE arrival(i, ann)

\* mutant: the updater counts down
incStepDown(prev) == prev - 1

\* the updater of setStepIndex(prev => prev + 1)
incStep(prev) == prev + 1

-----------------------------------------------------------------------------
\* Observation of a session: the bands of the triggers and the distance of
\* a coordinate to the approach coordinate of S[i+1]

N == Len(steps)

TargetLat(i) == Number(steps[i + 2].start_location[1])
TargetLng(i) == Number(steps[i + 2].start_location[2])
HasTarget(i) ==
  i >= 0 /\ i < N - 1 /\ isSafeNumber(TargetLat(i)) /\ isSafeNumber(TargetLng(i))

\* rounded distance in metres from a coordinate to S[i+1]
DistTo(i, lat, lng) == (Abs(TargetLat(i) - lat) + 5) \div 10

\* the band (lo, hi] of a trigger, in metres
BandLo(tag) ==
  CASE tag = "haz-early" -> 700 [] tag = "haz-crit" -> 150 [] tag = "500m" -> 450
    [] tag = "200m" -> 150 [] tag = "now" -> 30
BandHi(tag) ==
  CASE tag = "haz-early" -> 800 [] tag = "haz-crit" -> 200 [] tag = "500m" -> 500
    [] tag = "200m" -> 200 [] tag = "now" -> 50

\* the tags whose band holds the rounded distance of <<lat, lng>> to S[i+1]
TagsInBand(i, lat, lng) ==
  IF HasTarget(i) /\ isSafeNumber(lat) /\ isSafeNumber(lng)
  THEN {t \in Tags : DistTo(i, lat, lng) > BandLo(t) /\ DistTo(i, lat, lng) <= BandHi(t)}
  ELSE {}

\* inBandSeen after a fix at <<lat, lng>> is processed
SeenAfter(lat, lng) ==
  inBandSeen \cup {<<stepIndex, t>> : t \in TagsInBand(stepIndex, lat, lng)}

-----------------------------------------------------------------------------
\* State after mount: useState initial values, the mount effect of lines
\* 255-259 has set vehiclePos, the lifecycle effect has run with
\* isDriving = false.

Deps == [isDriving |-> isDriving, gpsMode |-> gpsMode,
         stepIndex |-> stepIndex, speed |-> speed]

\* ev: the handler that ran last, the stepIndex of its closure, its speak()
\* calls and, for a handler that is given a fix, the fix and whether it
\* found speech in progress or queued
NoFix == [latitude |-> Undef, longitude |-> Undef, heading |-> Undef,
          speed |-> Undef, accuracy |-> Undef]
\* the record of the first render of a mount; remounted: the component has
\* been unmounted and mounted again, previous: the announcement record the
\* unmounted component had
Ev0(op, remounted, previous) ==
  [op |-> op, i |-> 0, said |-> <<>>, fix |-> NoFix, busy |-> FALSE,
   remounted |-> remounted, previous |-> previous]
Ev(op, i, nav) ==
  [op |-> op, i |-> i, said |-> nav.said, fix |-> NoFix, busy |-> FALSE,
   remounted |-> ev.remounted, previous |-> ev.previous]

\* a handler may run; the lag after it
CanRun == Deps = effDeps \/ lag < MaxLag
LagNext == IF Deps = effDeps THEN 0 ELSE lag + 1

\* useState and useRef initial values, but for the vehicle position
Fresh ==
  /\ stepIndex = 0
  /\ isDriving = FALSE
  /\ gpsMode = "simulated"
  /\ distanceToNext = 0
  /\ heading = 0
  /\ speed = 0
  /\ gpsAccuracy = Null
  /\ reqRef = FALSE
  /\ progressRef = 0
  /\ watchIdRef = FALSE
  /\ announcedRef = {}
  /\ rafs = {}
  /\ watches = {}
  /\ effDeps = Deps
  /\ speechQueue = <<>>
  /\ lag = 0
  /\ emitCount = [k \in Keys |-> 0]
  /\ inBandSeen = {}
  \* MapContainer center and zoom; the first run of MapController's effects
  /\ camera = [center |-> SAFE_DEFAULT_CENTER, zoom |-> 15, initialized |-> FALSE,
               timer |-> TRUE,
               deps |-> [center |-> SAFE_DEFAULT_CENTER, isDriving |-> FALSE, speed |-> 0],
               by |-> "init", panned |-> FALSE]

\* the mount effect of lines 255-259 on the position pos
firstPoint(pos) ==
  IF Len(routePoints) > 0 /\ isSafeCoordinate(routePoints[1]) THEN routePoints[1] ELSE pos

\* the state after the first render and its mount effect
Mount ==
  /\ Fresh
  /\ vehiclePos = firstPoint(SAFE_DEFAULT_CENTER)
  /\ ev = Ev0("mount", FALSE, {})

Init ==
  /\ route \in Routes
  /\ geoSupported \in BOOLEAN
  /\ geoSupported = (route \notin SimRoutes)
  /\ speechOn \in BOOLEAN
  /\ (speechOn => route \in SpeechRoutes)
  /\ (route = RouteHazard => speechOn)
  /\ Mount

-----------------------------------------------------------------------------
\* Buttons

startDrive(mode) ==
  \* the start buttons are rendered while the rendered isDriving is false
  /\ ~effDeps.isDriving
  /\ CanRun
  /\ lag' = LagNext
  /\ LET said == IF Len(steps) > 0 THEN <<Say(<<NoStep, "start">>, FALSE)>> ELSE <<>>
         q == Speech(speechQueue, said)
     IN /\ Len(q) <= MaxQueue
        /\ speechQueue' = q
        /\ ev' = [Ev("start", stepIndex, NoNav({})) EXCEPT !.said = said]
  /\ gpsMode' = mode
  /\ isDriving' = TRUE
  /\ gpsAccuracy' = Null
  /\ UNCHANGED <<route, camera, geoSupported, speechOn, stepIndex, distanceToNext, vehiclePos,
                 heading, speed, reqRef, progressRef, watchIdRef, announcedRef,
                 rafs, watches, effDeps, emitCount, inBandSeen>>

\* mutant: clearWatch leaves the subscription in place
clearNothing(ws) == ws

\* navigator.geolocation.clearWatch(watchIdRef.current)
clearWatch(ws) == {w \in ws : ~w.tracked}

\* cancelAnimationFrame(reqRef.current)
cancelAnimationFrame(rs) == {r \in rs : ~r.tracked}

stopDrive ==
  \* the stop button is rendered while the rendered isDriving is true
  /\ effDeps.isDriving
  /\ CanRun
  /\ lag' = LagNext
  /\ isDriving' = FALSE
  /\ gpsAccuracy' = Null
  \* window.speechSynthesis.cancel() throws when speechSynthesis is missing:
  \* the clearWatch of the next line is then not reached
  /\ speechQueue' = <<>>
  /\ watches' = IF speechOn /\ watchIdRef THEN clearWatch(watches) ELSE watches
  /\ ev' = Ev("stop", stepIndex, NoNav({}))
  /\ UNCHANGED <<route, camera, geoSupported, speechOn, stepIndex, gpsMode, distanceToNext,
                 vehiclePos, heading, speed, reqRef, progressRef, watchIdRef,
                 announcedRef, rafs, effDeps, emitCount, inBandSeen>>

-----------------------------------------------------------------------------
\* Lifecycle effect, dependencies [isDriving, gpsMode, routePoints,
\* stepIndex, speed]: the cleanup of the previous run, then the body in the
\* current render.

\* a request or watch whose id a ref no longer holds
Untrack(cs) == {[c EXCEPT !.tracked = FALSE] : c \in cs}

Effect ==
  /\ Deps # effDeps
  /\ lag' = 0
  /\ effDeps' = Deps
  /\ LET rafs1    == IF reqRef THEN cancelAnimationFrame(rafs) ELSE rafs
         watches1 == IF watchIdRef THEN clearWatch(watches) ELSE watches
     IN IF isDriving
        THEN IF gpsMode = "simulated"
             THEN /\ rafs' = Untrack(rafs1) \cup
                             {[stepIndex |-> stepIndex, speed |-> speed, tracked |-> TRUE]}
                  /\ reqRef' = TRUE
                  /\ watches' = watches1
                  /\ ev' = Ev("effect", stepIndex, NoNav({}))
                  /\ UNCHANGED <<watchIdRef, gpsMode, speechQueue>>
             ELSE \* startRealGPS
                  IF ~geoSupported
                  THEN /\ gpsMode' = "simulated"
                       /\ rafs' = rafs1
                       /\ watches' = watches1
                       /\ ev' = Ev("effect", stepIndex, NoNav({}))
                       /\ UNCHANGED <<reqRef, watchIdRef, speechQueue>>
                  ELSE LET said == <<Say(<<NoStep, "gps">>, FALSE)>>
                           q == Speech(speechQueue, said)
                       IN /\ Len(q) <= MaxQueue
                          /\ speechQueue' = q
                          /\ watches' = Untrack(watches1) \cup
                                        {[stepIndex |-> stepIndex, tracked |-> TRUE]}
                          /\ watchIdRef' = TRUE
                          /\ rafs' = rafs1
                          /\ ev' = [Ev("effect", stepIndex, NoNav({})) EXCEPT !.said = said]
                          /\ UNCHANGED <<reqRef, gpsMode>>
        ELSE /\ rafs' = rafs1
             /\ watches' = watches1
             /\ watchIdRef' = FALSE
             /\ ev' = Ev("effect", stepIndex, NoNav({}))
             /\ UNCHANGED <<reqRef, gpsMode, speechQueue>>
  /\ UNCHANGED <<route, camera, geoSupported, speechOn, stepIndex, isDriving, distanceToNext,
                 vehiclePos, heading, speed, gpsAccuracy, progressRef,
                 announcedRef, emitCount, inBandSeen>>

-----------------------------------------------------------------------------
\* Live fixes (the success callback of watchPosition, lines 408-418)

\* distances (dm) from the handler's target at which fixes are delivered:
\* 800.4 m, 700.4 m, 480 m, 200 m, 40 m, 30 m, 24.6 m and 24.4 m on the
\* hazard route before its first advance; 480 m, 24.6 m and 10 m otherwise
Offsets == {8004, 7004, 4800, 2000, 400, 300, 246, 244}
LaterOffsets == {4800, 246, 100}

\* latitudes of the fixes delivered to a callback whose stepIndex is i
FixLats(i) ==
  IF i < Len(steps) - 1 /\ isSafeNumber(Number(steps[i + 2].start_location[1]))
  THEN {Number(steps[i + 2].start_location[1]) - o :
          o \in IF route = RouteHazard /\ i = 0 THEN Offsets ELSE LaterOffsets}
  ELSE {0, 10000}

\* the latitude at which fixes come with every kind of heading and speed
MotionLat(i) == CHOOSE lat \in FixLats(i) : \A l \in FixLats(i) : lat <= l

\* heading (degrees), speed (1e-2 m/s) and accuracy (m) of a fix
FullMotion == [heading |-> 90, speed |-> 500, accuracy |-> 10]
FixMotions ==
  {FullMotion,
   [heading |-> NaN,  speed |-> 500,  accuracy |-> 10],
   [heading |-> 90,   speed |-> Null, accuracy |-> 10],
   [heading |-> Null, speed |-> NaN,  accuracy |-> Null]}

Fix(lat, lng, m) ==
  [latitude |-> lat, longitude |-> lng, heading |-> m.heading,
   speed |-> m.speed, accuracy |-> m.accuracy]

Fixes(i) ==
  {Fix(lat, SAFE_LNG, FullMotion) : lat \in FixLats(i) \cup {OutOfRangeLat}}
  \cup {Fix(MotionLat(i), SAFE_LNG, m) : m \in FixMotions}
  \cup {Fix(NaN, SAFE_LNG, FullMotion), Fix(MotionLat(i), NaN, FullMotion),
        Fix(Undef, Undef, FullMotion)}

\* gpsSpeed * 3.6, m/s to km/h
toKmh(gpsSpeed) == (gpsSpeed * 36) \div 10

\* isSafeNumber(latitude) && isSafeNumber(longitude)
fixOk(f) == isSafeNumber(f.latitude) /\ isSafeNumber(f.longitude)

\* mutant: an unsafe heading resets the stored heading
headingReset(f, prev) == IF isSafeNumber(f.heading) THEN f.heading ELSE 0

\* if (isSafeNumber(gpsHeading)) setHeading(gpsHeading)
headingAfter(f, prev) == IF isSafeNumber(f.heading) THEN f.heading ELSE prev

\* if (isSafeNumber(gpsSpeed)) setSpeed(gpsSpeed * 3.6)
speedAfter(f, prev) == IF isSafeNumber(f.speed) THEN toKmh(f.speed) ELSE prev

onPosition(w, f) ==
  /\ w \in watches
  /\ CanRun
  /\ lag' = LagNext
  /\ LET ok  == fixOk(f)
         nav == IF ok
                THEN checkNavigationLogic(w.stepIndex, f.latitude, f.longitude,
                                          announcedRef)
                ELSE NoNav(announcedRef)
         q   == Speech(speechQueue, nav.said)
     IN /\ Len(q) <= MaxQueue
        /\ gpsAccuracy' = IF isSafeNumber(f.accuracy) THEN f.accuracy ELSE Null
        /\ vehiclePos' = IF ok THEN <<f.latitude, f.longitude>> ELSE vehiclePos
        /\ heading' = IF ok THEN headingAfter(f, heading) ELSE heading
        /\ speed' = IF ok THEN speedAfter(f, speed) ELSE speed
        /\ distanceToNext' = IF nav.setDist THEN nav.dist ELSE distanceToNext
        /\ announcedRef' = nav.ann
        /\ stepIndex' = IF nav.advance THEN incStep(stepIndex) ELSE stepIndex
        /\ isDriving' = IF nav.arrive THEN FALSE ELSE isDriving
        /\ speechQueue' = q
        /\ emitCount' = countAll(emitCount, nav.said)
        /\ inBandSeen' = SeenAfter(f.latitude, f.longitude)
        /\ ev' = [Ev("fix", w.stepIndex, nav) EXCEPT !.fix = f,
                                                      !.busy = speechQueue # <<>>]
  /\ UNCHANGED <<route, camera, geoSupported, speechOn, gpsMode, reqRef, progressRef,
                 watchIdRef, rafs, watches, effDeps>>

\* mutant: the notice interrupts the speech in progress
lostInterrupts == <<Say(<<NoStep, "lost">>, TRUE)>>

\* speak("Se perdio la senal GPS.")
lostNotice == <<Say(<<NoStep, "lost">>, FALSE)>>

\* the error callback of watchPosition (lines 419-422)
onPositionError(w) ==
  /\ w \in watches
  /\ CanRun
  /\ lag' = LagNext
  /\ LET said == lostNotice
         q == Speech(speechQueue, said)
     IN /\ Len(q) <= MaxQueue
        /\ speechQueue' = q
        /\ ev' = [Ev("error", w.stepIndex, NoNav({})) EXCEPT !.said = said]
  /\ UNCHANGED <<route, camera, geoSupported, speechOn, stepIndex, isDriving, gpsMode,
                 distanceToNext, vehiclePos, heading, speed, gpsAccuracy, reqRef,
                 progressRef, watchIdRef, announcedRef, rafs, watches, effDeps,
                 emitCount, inBandSeen>>

\* the speech engine finishes the utterance it is speaking
SpeechDone ==
  /\ speechQueue # <<>>
  /\ speechQueue' = Tail(speechQueue)
  /\ UNCHANGED <<route, camera, geoSupported, speechOn, stepIndex, isDriving, gpsMode,
                 distanceToNext, vehiclePos, heading, speed, gpsAccuracy, reqRef,
                 progressRef, watchIdRef, announcedRef, rafs, watches, effDeps,
                 lag, emitCount, inBandSeen, ev>>

-----------------------------------------------------------------------------
\* Simulation (simulateFrame, lines 333-397), run as the pending animation
\* frame callback r.

\* target speed of a segment of length segmentLen (dm), in 1e-2 km/h
targetSpeedKmh(segmentLen) ==
  IF segmentLen > 1000 THEN 9000 ELSE IF segmentLen > 500 THEN 6000 ELSE 3000

\* prev + (targetSpeedKmh - prev) * 0.05
smoothSpeed(prev, target) ==
  IF ~isSafeNumber(prev) THEN 0 ELSE prev + (target - prev) \div 20

\* mutant: the cursor does not advance
advanceNone(currentSpeed, segmentLen) == 0

\* advanceFraction in 1/PScale: ((currentSpeed / 3.6) / 60) / segmentLen,
\* or 1 when the segment is not longer than 0.1 m
advanceFraction(currentSpeed, segmentLen) ==
  IF segmentLen > 1 THEN (currentSpeed * PScale) \div (2160 * segmentLen) ELSE PScale

\* mutant: only an empty path is too short
tooShortEmpty(n) == n < 1

\* if (routePoints.length < 2) return
tooShort(n) == n < 2

simulateFrame(r) ==
  /\ r \in rafs
  /\ CanRun
  /\ lag' = LagNext
  /\ LET rest == rafs \ {r}
         again == Untrack(rest) \cup {[r EXCEPT !.tracked = TRUE]}
         n == Len(routePoints)
         p0 == IF isSafeNumber(progressRef) THEN progressRef ELSE 0
         curIdx == p0 \div PScale
         nextIdx == curIdx + 1
     IN IF tooShort(n)
        THEN /\ rafs' = rest
             /\ ev' = Ev("frame", r.stepIndex, NoNav({}))
             /\ UNCHANGED <<stepIndex, isDriving, distanceToNext, vehiclePos,
                            heading, speed, reqRef, progressRef, announcedRef,
                            speechQueue, emitCount, inBandSeen>>
        ELSE IF p0 >= (n - 1) * PScale - PScale \div 1000
        THEN /\ rafs' = rest
             /\ progressRef' = p0
             /\ isDriving' = FALSE
             /\ speed' = 0
             /\ ev' = Ev("frame-end", r.stepIndex, NoNav({}))
             /\ UNCHANGED <<stepIndex, distanceToNext, vehiclePos, heading,
                            reqRef, announcedRef, speechQueue, emitCount, inBandSeen>>
        ELSE IF curIdx < 0 \/ nextIdx >= n
        THEN /\ rafs' = rest
             /\ progressRef' = Min(Max(0, curIdx), n - 1) * PScale
             /\ ev' = Ev("frame", r.stepIndex, NoNav({}))
             /\ UNCHANGED <<stepIndex, isDriving, distanceToNext, vehiclePos,
                            heading, speed, reqRef, announcedRef, speechQueue,
                            emitCount, inBandSeen>>
        ELSE LET p1 == routePoints[curIdx + 1]
                 p2 == routePoints[nextIdx + 1]
             IN IF ~isSafeCoordinate(p1) \/ ~isSafeCoordinate(p2)
                THEN /\ progressRef' = nextIdx * PScale
                     /\ rafs' = again
                     /\ reqRef' = TRUE
                     /\ ev' = Ev("frame", r.stepIndex, NoNav({}))
                     /\ UNCHANGED <<stepIndex, isDriving, distanceToNext,
                                    vehiclePos, heading, speed, announcedRef,
                                    speechQueue, emitCount, inBandSeen>>
                ELSE LET segmentLen == getDistance(p1[1], p1[2], p2[1], p2[2])
                         currentSpeed == Max(r.speed, 1000)
                         progress == p0 + advanceFraction(currentSpeed, segmentLen)
                         localT == progress - curIdx * PScale
                         newLat == p1[1] + ((p2[1] - p1[1]) * localT) \div PScale
                         newLng == p1[2] + ((p2[2] - p1[2]) * localT) \div PScale
                         ok == isSafeNumber(newLat) /\ isSafeNumber(newLng)
                         nav == IF ok
                                THEN checkNavigationLogic(r.stepIndex, newLat, newLng,
                                                          announcedRef)
                                ELSE NoNav(announcedRef)
                         q == Speech(speechQueue, nav.said)
                     IN /\ Len(q) <= MaxQueue
                        /\ speed' = smoothSpeed(speed, targetSpeedKmh(segmentLen))
                        /\ progressRef' = progress
                        /\ vehiclePos' = IF ok THEN <<newLat, newLng>> ELSE vehiclePos
                        /\ heading' = IF ok THEN getBearing(p1[1], p1[2], p2[1], p2[2])
                                      ELSE heading
                        /\ distanceToNext' = IF nav.setDist THEN nav.dist
                                             ELSE distanceToNext
                        /\ announcedRef' = nav.ann
                        /\ stepIndex' = IF nav.advance THEN incStep(stepIndex) ELSE stepIndex
                        /\ isDriving' = IF nav.arrive THEN FALSE ELSE isDriving
                        /\ speechQueue' = q
                        /\ emitCount' = countAll(emitCount, nav.said)
                        /\ inBandSeen' = SeenAfter(newLat, newLng)
                        /\ rafs' = again
                        /\ reqRef' = TRUE
                        /\ ev' = [Ev("tick", r.stepIndex, nav) EXCEPT
                                    !.fix = [NoFix EXCEPT !.latitude = newLat,
                                                          !.longitude = newLng],
                                    !.busy = speechQueue # <<>>]
  /\ UNCHANGED <<route, camera, geoSupported, speechOn, gpsMode, gpsAccuracy, watchIdRef, watches,
                 effDeps>>

-----------------------------------------------------------------------------

\* the user presses "Simulacion" or "Navegar GPS"
Start == \E mode \in {"simulated", "real"} : startDrive(mode)
\* the location service delivers a fix to a subscribed callback
Position == \E w \in watches : \E f \in Fixes(w.stepIndex) : onPosition(w, f)
\* the location service reports an error to a subscribed callback
PositionError == \E w \in watches : onPositionError(w)
\* the browser runs a pending animation frame callback
Frame == \E r \in rafs : simulateFrame(r)

Next ==
  \/ Start
  \/ stopDrive
  \/ Effect
  \/ Position
  \/ PositionError
  \/ Frame
  \/ SpeechDone

Spec == Init /\ [][Next]_vars

-----------------------------------------------------------------------------
\* Properties

StepKeys == (0 .. MaxSteps) \X Tags
HazardTags == {"haz-early", "haz-crit"}

\* this step runs a handler that is given a fix, a live fix or the fix a
\* simulation frame emits: the handler that ran last is such a handler and
\* the step is not the speech engine's, the only one that leaves ev alone
FixStep == ev'.op \in {"fix", "tick"} /\ ~SpeechDone

\* this step runs the success callback of the location watch
LiveFixStep == ev'.op = "fix" /\ ~SpeechDone

\* a coordinate of finite numbers
SafeFix(f) == isSafeNumber(f.latitude) /\ isSafeNumber(f.longitude)

\* a valid coordinate: finite numbers, latitude in [-90, 90] degrees and
\* longitude in [-180, 180] degrees
ValidFix(f) ==
  /\ SafeFix(f)
  /\ Abs(f.latitude) <= 90 * 1111949
  /\ Abs(f.longitude) <= 180 * 10000

\* the announcement k is spoken in this step
Emitted(k) == emitCount'[k] > emitCount[k]

\* C1: every (step index, trigger tag) pair has been spoken at most once,
\* and exactly once as soon as a fix handled for step i had its rounded
\* distance in (450, 500], however often the band was entered.
C1_AtMostOnce ==
  /\ \A k \in StepKeys : emitCount[k] <= 1
  /\ (/\ ev.op \in {"fix", "tick"}
      /\ SafeFix(ev.fix)
      /\ "500m" \in TagsInBand(ev.i, ev.fix.latitude, ev.fix.longitude))
     => emitCount[<<ev.i, "500m">>] = 1

\* a fix in the (450, 500] band is handled after the "distant" trigger of
\* its step fired, and after the vehicle had been 40 m from the step
C1_Witness ==
  /\ route = RouteHazard
  /\ ev.op = "fix" /\ ev.i = 0 /\ stepIndex = 0
  /\ DistTo(0, ev.fix.latitude, ev.fix.longitude) = 480
  /\ ev.said = <<>>
  /\ emitCount[<<0, "500m">>] = 1
  /\ <<0, "now">> \in announcedRef

\* C2: the step index never decreases and grows by at most 1 in one step
\* of the system (one fix is processed per step).
C2_StepMonotone ==
  [][stepIndex' = stepIndex \/ stepIndex' = stepIndex + 1]_vars

\* a fix 10 m from S[1] and 20 m from S[2] was processed with stepIndex 0
\* and the index is 1
C2_Witness ==
  /\ route = RouteNear /\ ev.op = "fix" /\ ev.i = 0
  /\ SafeFix(ev.fix)
  /\ DistTo(0, ev.fix.latitude, ev.fix.longitude) < 25
  /\ DistTo(1, ev.fix.latitude, ev.fix.longitude) < 25
  /\ stepIndex = 1

\* C3: once the step index is N-1 and arrival is recorded, no step (a fix,
\* also one delivered after a new start, or anything else) advances the step
\* index or announces arrival again.
C3_ArrivalTerminal ==
  [][(stepIndex = N - 1 /\ Finished \in announcedRef)
       => (stepIndex' = stepIndex /\ ~Emitted(Finished)
           /\ emitCount[Finished] = 1)]_vars

\* arrival was announced, the session was started again and a valid fix
\* has been processed in the new session
C3_Witness ==
  /\ route = RouteHazard
  /\ Finished \in announcedRef /\ stepIndex = N - 1
  /\ isDriving /\ gpsMode = "real"
  /\ ev.op = "fix" /\ ev.i = N - 1 /\ ValidFix(ev.fix)

\* C4: a valid fix processed while the step index is N-1 and arrival is
\* not recorded sets distance-to-next to 0, announces arrival exactly once
\* and clears the driving flag.
C4_ArrivalOnLastStep ==
  [][(FixStep /\ ValidFix(ev'.fix) /\ stepIndex = N - 1
      /\ Finished \notin announcedRef)
       => (/\ distanceToNext' = 0
           /\ Emitted(Finished) /\ emitCount'[Finished] = 1
           /\ ~isDriving')]_vars

\* C5: on a valid fix processed while the step index is i, with rounded
\* distance d to S[i+1], a trigger is announced only for step i, only when d
\* is in its band (hazard triggers only if S[i+1] has a hazard warning), and
\* every unrecorded trigger of step i whose band holds d is announced.
C5_Bands ==
  [][(FixStep /\ ValidFix(ev'.fix) /\ HasTarget(stepIndex))
       => LET i == stepIndex
              due == {t \in TagsInBand(i, ev'.fix.latitude, ev'.fix.longitude) :
                        t \in HazardTags => steps[i + 2].hazardWarning}
          IN /\ \A k \in StepKeys : Emitted(k) => k[1] = i /\ k[2] \in due
             /\ \A t \in due : <<i, t>> \notin announcedRef => Emitted(<<i, t>>)]_vars

\* C6: a fix that announces a hazard leaves in the speech queue the hazard
\* text followed by the standard texts of that fix and nothing older; a fix
\* that announces only standard texts appends them to the queue.
C6_HazardInterrupts ==
  [][(FixStep /\ speechOn /\ ~Emitted(Finished))
       => LET em  == {k \in StepKeys : Emitted(k)}
              haz == {k \in em : k[2] \in HazardTags}
              std == [j \in 1 .. Cardinality(em \ haz) |-> "instruction"]
          IN IF haz # {}
             THEN speechQueue' = <<"hazard">> \o std
             ELSE speechQueue' = speechQueue \o std]_vars

\* a fix 200 m from a hazard step found a notice in the queue and left the
\* critical hazard warning followed by the "prepare" instruction
C6_Witness ==
  /\ ev.op = "fix" /\ ev.busy
  /\ \E j \in 1 .. Len(ev.said) : ev.said[j].key = <<0, "haz-crit">>
  /\ speechQueue = <<"hazard", "instruction">>

\* C7: a trigger of step i is spoken only if a fix processed while the step
\* index was i had its rounded distance inside the trigger's band.
C7_NoRetroactive ==
  \A k \in StepKeys : emitCount[k] >= 1 => k \in inBandSeen

\* C8: a live fix whose coordinate is not valid changes neither position,
\* heading, speed, distance-to-next, step index nor the record, announces
\* nothing, keeps the driving flag and keeps the subscription.
C8_InvalidFixIgnored ==
  [][(LiveFixStep /\ ~ValidFix(ev'.fix))
       => UNCHANGED <<vehiclePos, heading, speed, distanceToNext, stepIndex,
                      announcedRef, emitCount, isDriving, watches, watchIdRef>>]_vars

\* C9: a valid fix processed while the step index is i < N-1 and S[i+1]
\* has no valid approach coordinate changes neither distance-to-next, step
\* index nor the record and announces nothing.
C9_InvalidTarget ==
  [][(FixStep /\ ValidFix(ev'.fix) /\ stepIndex < N - 1 /\ ~HasTarget(stepIndex))
       => UNCHANGED <<distanceToNext, stepIndex, announcedRef, emitCount>>]_vars

\* C10: a live fix with safe coordinates replaces the heading iff its
\* heading is a safe number and the speed (by 3.6 times the m/s value) iff
\* its speed is a safe number; otherwise the stored value stays.
C10_HeadingSpeed ==
  [][(LiveFixStep /\ SafeFix(ev'.fix))
       => /\ heading' = IF ev'.fix.heading \in {NaN, Undef, Null}
                        THEN heading ELSE ev'.fix.heading
          /\ speed' = IF ev'.fix.speed \in {NaN, Undef, Null}
                      THEN speed ELSE (ev'.fix.speed * 36) \div 10]_vars

\* a fix with valid coordinates and heading NaN was processed and the
\* heading is still the 90 degrees of an earlier fix
C10_Witness ==
  /\ ev.op = "fix" /\ ValidFix(ev.fix)
  /\ ev.fix.heading = NaN
  /\ heading = 90

\* this step runs the error callback of the location watch
ErrorStep == ev'.op = "error" /\ ~SpeechDone

\* C11: a location error changes neither the driving flag, position,
\* heading, speed, distance-to-next, step index nor the record, keeps the
\* watch subscribed, and queues one notice behind the speech in progress.
C11_ErrorKeepsSession ==
  [][ErrorStep
       => /\ UNCHANGED <<isDriving, vehiclePos, heading, speed, distanceToNext,
                         stepIndex, announcedRef, emitCount, watches, watchIdRef,
                         gpsMode>>
          /\ speechQueue' = IF speechOn THEN Append(speechQueue, "notice")
                            ELSE speechQueue]_vars

\* an error was reported in a driving session that had processed a fix,
\* with speech in progress, and the watch is still subscribed
C11_Witness ==
  /\ ev.op = "error" /\ isDriving /\ gpsMode = "real"
  /\ watches # {} /\ watchIdRef
  /\ distanceToNext = 480
  /\ Len(speechQueue) = 2

\* C12: at most one position producer exists: the pending animation frames
\* and the subscribed location watches are together at most one.
C12_OneProducer ==
  Cardinality(rafs) + Cardinality(watches) <= 1

\* the lifecycle effect has re-run after a step advance and a speed change
\* of a live session: the one producer is the watch created by that run
C12_Witness ==
  /\ isDriving /\ gpsMode = "real" /\ effDeps = Deps
  /\ stepIndex = 1 /\ speed > 0
  /\ watches = {[stepIndex |-> 1, tracked |-> TRUE]}
  /\ rafs = {}

-----------------------------------------------------------------------------
\* Scheduling: the browser runs a pending animation frame callback and React
\* runs a lifecycle effect whose dependencies changed.

FairSpec == Spec /\ WF_vars(Frame) /\ WF_vars(Effect)

\* a session driving in simulated mode over a path of at least 2 points
SimDriving == isDriving /\ gpsMode = "simulated" /\ Len(routePoints) >= 2

\* C14: a session driving in simulated mode over a path of at least 2 points
\* does not stay so for ever: it eventually stops (driving flag false), unless
\* a second press of start has made it a live session; the frame that finds
\* the cursor at pathLength - 1 - 0.001 or beyond sets speed to 0, clears the
\* driving flag and leaves no animation frame scheduled.
C14_SimStops ==
  /\ SimDriving ~> ~SimDriving
  /\ [][(ev'.op = "frame-end" /\ ~SpeechDone)
          => /\ progressRef >= (Len(routePoints) - 1) * PScale - PScale \div 1000
             /\ speed' = 0
             /\ ~isDriving'
             /\ rafs' = {}]_vars

C14_Witness ==
  /\ ev.op = "frame-end"
  /\ route = RouteSim
  /\ progressRef >= 2 * PScale - PScale \div 1000
  /\ ~isDriving /\ speed = 0 /\ rafs = {}

-----------------------------------------------------------------------------
\* A simulated drive over the two-point path of RouteTwo, on a device
\* without speech synthesis: the user presses "Simulacion" once and leaves
\* the buttons alone; React renders, and runs the lifecycle effect, after
\* every handler.

SegmentInit ==
  /\ route = RouteTwo
  /\ geoSupported = TRUE
  /\ speechOn = FALSE
  /\ Mount

SegmentNext ==
  \/ ev.op = "mount" /\ startDrive("simulated")
  \/ Deps = effDeps /\ Frame
  \/ Effect

SegmentSpec == SegmentInit /\ [][SegmentNext]_vars

\* the smallest box that holds the two points of RouteTwo's path
InSegmentBox(pos) ==
  /\ pos[1] >= Min(routePoints[1][1], routePoints[2][1])
  /\ pos[1] <= Max(routePoints[1][1], routePoints[2][1])
  /\ pos[2] >= Min(routePoints[1][2], routePoints[2][2])
  /\ pos[2] <= Max(routePoints[1][2], routePoints[2][2])

\* C15: over a 2-point path whose points are 1000 m apart the simulated
\* session, once started, is stopped only with its cursor at 0.999 or beyond
\* and with speed 0, and every coordinate emitted lies in the bounding box of
\* the two points.
C15_SegmentRun ==
  /\ Len(routePoints) = 2
  /\ InSegmentBox(vehiclePos)
  /\ (ev.op # "mount" /\ ~isDriving)
       => (progressRef >= PScale - PScale \div 1000 /\ speed = 0)

-----------------------------------------------------------------------------
\* The path of an arbitrary route prop.  The route is drawn from the routes
\* with at most MaxPathLen polyline entries and MaxPathSteps steps over the
\* candidate coordinates below; the component renders with it and its mount
\* effect moves the vehicle to the first point of the path built.

MaxPathLen == 3
MaxPathSteps == 2

\* candidate coordinates: two points 1000 m apart, a coordinate that is
\* undefined, one with a NaN latitude, one with a null latitude and one
\* with a latitude of 95 degrees
Candidates ==
  {Pt(0), Pt(10000), <<Undef, Undef>>, <<NaN, SAFE_LNG>>, <<Null, SAFE_LNG>>,
   <<OutOfRangeLat, SAFE_LNG>>}

SeqsUpTo(S, n) == UNION {[1 .. k -> S] : k \in 0 .. n}

PathRoutes ==
  {[steps |-> [i \in DOMAIN cs |-> Step(cs[i][1], cs[i][2], FALSE)], path |-> p] :
     cs \in SeqsUpTo(Candidates, MaxPathSteps), p \in SeqsUpTo(Candidates, MaxPathLen)}

\* the first render: useState initial values
PathInit ==
  /\ route \in PathRoutes
  /\ geoSupported = TRUE
  /\ speechOn = FALSE
  /\ Fresh
  /\ vehiclePos = SAFE_DEFAULT_CENTER
  /\ ev = Ev0("render", FALSE, {})

\* the mount effect: setVehiclePos(routePoints[0]) when that point is safe
mountEffect ==
  /\ ev.op = "render"
  /\ vehiclePos' = firstPoint(vehiclePos)
  /\ ev' = Ev("mount", 0, NoNav({}))
  /\ UNCHANGED <<route, camera, geoSupported, speechOn, stepIndex, isDriving, gpsMode,
                 distanceToNext, heading, speed, gpsAccuracy, reqRef, progressRef,
                 watchIdRef, announcedRef, rafs, watches, effDeps, speechQueue,
                 lag, emitCount, inBandSeen>>

PathNext == mountEffect

PathSpec == PathInit /\ [][PathNext]_vars

\* the raw coordinate candidates of the route: the polyline when it has more
\* than 2 entries, otherwise the approach coordinates of the steps in order
RawPoints ==
  IF Len(route.path) > 2 THEN route.path
  ELSE [i \in 1 .. Len(steps) |-> steps[i].start_location]

\* a safe coordinate: two finite numbers, latitude in [-90, 90] degrees and
\* longitude in [-180, 180] degrees
SafeRaw(c) ==
  /\ Len(c) = 2
  /\ c[1] \notin {NaN, Undef, Null} /\ c[2] \notin {NaN, Undef, Null}
  /\ Abs(c[1]) <= 90 * 1111949 /\ Abs(c[2]) <= 180 * 10000

\* the positions of the safe candidates
KeptIdx == {i \in 1 .. Len(RawPoints) : SafeRaw(RawPoints[i])}

\* the j-th safe candidate
KeptAt(j) == RawPoints[CHOOSE i \in KeptIdx : Cardinality({m \in KeptIdx : m < i}) = j - 1]

\* C16: when some candidate is safe, the path the component has mounted with
\* is exactly the safe candidates in their order, the candidates being the
\* polyline iff it has more than 2 entries and the steps' approach
\* coordinates otherwise.
C16_PathSource ==
  (ev.op = "mount" /\ KeptIdx # {})
    => /\ Len(routePoints) = Cardinality(KeptIdx)
       /\ \A j \in 1 .. Len(routePoints) : routePoints[j] = KeptAt(j)

\* C17: the path is never empty, and when no candidate is safe the path the
\* component has mounted with is exactly the one point SAFE_DEFAULT_CENTER.
C17_Fallback ==
  /\ Len(routePoints) >= 1
  /\ (ev.op = "mount" /\ KeptIdx = {}) => routePoints = <<SAFE_DEFAULT_CENTER>>

-----------------------------------------------------------------------------
\* The route service's cleaning of a polyline (geminiService).

\* 1e-5 degrees of latitude, in decimetres of meridian arc; a longitude
\* difference of more than 1e-5 degrees is one of at least one unit (1e-4)
EPS_LAT == 11

isValidNumber(num) == num \notin {NaN, Undef, Null}

\* validateAndCleanCoord(coord): the cleaned pair, or <<>> for null
validateAndCleanCoord(coord) ==
  IF Len(coord) < 2 THEN <<>>
  ELSE LET lat == Number(coord[1])
           lng == Number(coord[2])
       IN IF ~isValidNumber(lat) \/ ~isValidNumber(lng) THEN <<>>
          ELSE IF lat < 0 - 90 * 1111949 \/ lat > 90 * 1111949
                  \/ lng < 0 - 180 * 10000 \/ lng > 180 * 10000 THEN <<>>
          ELSE <<lat, lng>>

\* the loop of validateAndCleanCoord over a path
RECURSIVE cleanPath(_)
cleanPath(path) ==
  IF path = <<>> THEN <<>>
  ELSE LET validated == validateAndCleanCoord(Head(path))
       IN IF validated # <<>> THEN <<validated>> \o cleanPath(Tail(path))
          ELSE cleanPath(Tail(path))

\* removeDuplicateCoords: result is the output so far, coords the rest
RECURSIVE dedupInto(_, _)
dedupInto(result, coords) ==
  IF coords = <<>> THEN result
  ELSE LET prev == result[Len(result)]
           curr == Head(coords)
       IN IF Abs(prev[1] - curr[1]) > EPS_LAT \/ Abs(prev[2] - curr[2]) > 0
          THEN dedupInto(Append(result, curr), Tail(coords))
          ELSE dedupInto(result, Tail(coords))

removeDuplicateCoords(coords) ==
  IF Len(coords) = 0 THEN coords ELSE dedupInto(<<Head(coords)>>, Tail(coords))

\* a route as the route service delivers it: steps with valid coordinates, at
\* least one step, a polyline that is cleaned and free of consecutive
\* duplicates and has at least one point
ServiceRoute ==
  /\ Len(steps) >= 1
  /\ \A i \in 1 .. Len(steps) : validateAndCleanCoord(steps[i].start_location) = steps[i].start_location
  /\ Len(route.path) >= 1
  /\ route.path = removeDuplicateCoords(cleanPath(route.path))

\* two points within 1e-5 degrees of each other in latitude and in longitude
Near(p, q) == Abs(p[1] - q[1]) <= EPS_LAT /\ p[2] = q[2]

\* C18: the path the component has mounted with, built from a route the
\* route service delivers, has no two consecutive points within 1e-5 degrees
\* of each other.
C18_NoNearDuplicates ==
  (ev.op = "mount" /\ ServiceRoute)
    => \A j \in 1 .. Len(routePoints) - 1 : ~Near(routePoints[j], routePoints[j + 1])

-----------------------------------------------------------------------------
\* C19: for the coordinates the watch callback is given together with the
\* approach coordinate of the step its closure targets, whenever the fix is
\* not a valid coordinate (a component that is not a finite number, or out
\* of range) getDistance and getBearing both return 0.
C19_UnsafeInputZero ==
  (ev.op = "fix" /\ HasTarget(ev.i) /\ ~ValidFix(ev.fix))
    => /\ getDistance(ev.fix.latitude, ev.fix.longitude,
                      TargetLat(ev.i), TargetLng(ev.i)) = 0
       /\ getBearing(ev.fix.latitude, ev.fix.longitude,
                     TargetLat(ev.i), TargetLng(ev.i)) = 0

-----------------------------------------------------------------------------
\* The camera (MapController).  It reads the session's state and writes none
\* of it.  One live session on RouteNear; React renders, and runs the
\* effects, after every handler; the user drags the map during the session.

sanitizeCoordinate(coords) == IF isSafeCoordinate(coords) THEN coords ELSE SAFE_DEFAULT_CENTER

safePos == sanitizeCoordinate(vehiclePos)

\* mutant: one zoom for every speed
getFixedZoom(speedKmh) == 18

\* zoom for a speed in 1e-2 km/h
getDynamicZoom(speedKmh) ==
  IF speedKmh < 3000 THEN 18
  ELSE IF speedKmh < 6000 THEN 17
  ELSE IF speedKmh < 9000 THEN 16
  ELSE 15

\* the dependency values of the tracking effect
CamDeps == [center |-> safePos, isDriving |-> isDriving, speed |-> speed]

\* the two effects of MapController after a render that changed center,
\* isDriving or speed: the first restarts the 250 ms timer when center
\* changed, the second sets the view while driving
cameraEffects ==
  /\ CamDeps # camera.deps
  /\ LET follow == isDriving /\ isSafeCoordinate(safePos)
     IN camera' = [camera EXCEPT
                     !.deps = CamDeps,
                     !.timer = IF safePos # camera.deps.center THEN TRUE ELSE @,
                     !.center = IF follow THEN safePos ELSE @,
                     !.zoom = IF follow THEN getDynamicZoom(speed) ELSE @,
                     !.by = IF follow THEN "effect" ELSE @]
  /\ UNCHANGED session

\* the 250 ms timer of the first effect fires
initialView ==
  /\ camera.timer
  /\ LET snap == ~camera.initialized /\ isSafeCoordinate(camera.deps.center)
     IN camera' = [camera EXCEPT
                     !.timer = FALSE,
                     !.initialized = IF snap THEN TRUE ELSE @,
                     !.center = IF snap THEN camera.deps.center ELSE @,
                     !.zoom = IF snap THEN 15 ELSE @,
                     !.by = IF snap THEN "effect" ELSE @]
  /\ UNCHANGED session

\* places the user drags the map to
PanCenters == {Pt(50000), Pt(60000)}

\* the user drags the map (Leaflet's dragging handler) during a session
panMap(c) ==
  /\ isDriving
  /\ c # camera.center
  /\ camera' = [camera EXCEPT !.center = c, !.by = "user", !.panned = TRUE]
  /\ UNCHANGED session

\* every effect has run
Settled == Deps = effDeps /\ CamDeps = camera.deps

\* speeds (1e-2 m/s) of the fixes of a drive through every zoom tier: 36, 72
\* and 108 km/h
CamSpeeds == {1000, 2000, 3000}
CamFixes(i) ==
  {Fix(MotionLat(i), SAFE_LNG, [FullMotion EXCEPT !.speed = s]) : s \in CamSpeeds}

CameraInit ==
  /\ route = RouteNear
  /\ geoSupported = TRUE
  /\ speechOn = FALSE
  /\ Mount

CameraNext ==
  \/ Settled /\ ev.op = "mount" /\ startDrive("real")
  \/ Settled /\ Position
  \/ Settled /\ \E w \in watches : \E f \in CamFixes(w.stepIndex) : onPosition(w, f)
  \/ Settled /\ stopDrive
  \/ Effect
  \/ cameraEffects
  \/ initialView
  \/ Settled /\ \E c \in PanCenters : panMap(c)

CameraSpec == CameraInit /\ [][CameraNext]_vars

\* C20: once the user has dragged the map during the session (the initial
\* view being set), no fix moves the viewport: while the handler that ran
\* last is the watch callback, centre and zoom change only by the user's
\* hand (the code has no recenter action that could turn tracking on
\* again).
C20_PanStopsTracking ==
  [][(camera.panned /\ camera.initialized /\ ev.op = "fix")
       => \/ camera'.center = camera.center /\ camera'.zoom = camera.zoom
          \/ camera'.by = "user"]_vars

-----------------------------------------------------------------------------
\* Leaving navigation and choosing a route again (App): "Cancelar Ruta",
\* rendered while the rendered isDriving is false, calls resetRoute, which
\* unmounts RouteResult; handleRouteSelection mounts a new RouteResult.  The
\* simulated drives of a device without location service and speech.

\* mutant: the record of the unmounted component is kept
staleSet == announcedRef

\* new Set() of useRef
newSet == {}

\* resetRoute, then handleRouteSelection(r): the cleanup of the lifecycle
\* effect, then the first render and the mount effect of the new component
reselect(r) ==
  /\ ~effDeps.isDriving
  /\ CanRun
  /\ route' = r
  /\ rafs' = IF reqRef THEN cancelAnimationFrame(rafs) ELSE rafs
  /\ watches' = IF watchIdRef THEN clearWatch(watches) ELSE watches
  /\ stepIndex' = 0
  /\ isDriving' = FALSE
  /\ gpsMode' = "simulated"
  /\ distanceToNext' = 0
  /\ vehiclePos' = IF isSafeCoordinate(routePointsOf(r)[1]) THEN routePointsOf(r)[1]
                   ELSE SAFE_DEFAULT_CENTER
  /\ heading' = 0
  /\ speed' = 0
  /\ gpsAccuracy' = Null
  /\ reqRef' = FALSE
  /\ progressRef' = 0
  /\ watchIdRef' = FALSE
  /\ announcedRef' = newSet
  /\ effDeps' = [isDriving |-> FALSE, gpsMode |-> "simulated", stepIndex |-> 0, speed |-> 0]
  /\ lag' = 0
  /\ emitCount' = [k \in Keys |-> 0]
  /\ inBandSeen' = {}
  /\ camera' = [center |-> SAFE_DEFAULT_CENTER, zoom |-> 15, initialized |-> FALSE,
                timer |-> TRUE,
                deps |-> [center |-> SAFE_DEFAULT_CENTER, isDriving |-> FALSE, speed |-> 0],
                by |-> "init", panned |-> FALSE]
  /\ ev' = Ev0("remount", TRUE, announcedRef)
  \* window.speechSynthesis outlives the component
  /\ UNCHANGED <<geoSupported, speechOn, speechQueue>>

RemountInit ==
  /\ route \in SimRoutes
  /\ geoSupported = FALSE
  /\ speechOn = FALSE
  /\ Mount

RemountNext ==
  \/ Start
  \/ stopDrive
  \/ Effect
  \/ Frame
  \/ \E r \in SimRoutes : reselect(r)

RemountSpec == RemountInit /\ [][RemountNext]_vars

\* C21: right after the user has left navigation and a route has been
\* selected again, the step index is 0, the announcement record is empty, the
\* simulation cursor is 0, the session is not driving and no frame or watch of
\* the previous component is left.
C21_RemountResets ==
  ev.op = "remount"
    => /\ stepIndex = 0 /\ announcedRef = {} /\ progressRef = 0
       /\ ~isDriving /\ rafs = {} /\ watches = {}

\* after a remount on RouteSim the "now" announcement of step 0, which the
\* unmounted component had recorded, has fired again and the cursor has left
\* 0 again
C21_Witness ==
  /\ ev.remounted
  /\ route = RouteSim
  /\ <<0, "now">> \in ev.previous
  /\ <<0, "now">> \in announcedRef
  /\ emitCount[<<0, "now">>] = 1
  /\ progressRef > 0

-----------------------------------------------------------------------------
\* A route with exactly one step

\* rounded distance in metres from a fix to the only step of the route
DistToOnly(f) == MathRound(Abs(Number(steps[1].start_location[1]) - f.latitude))

\* C22: on a route with exactly one step, a valid fix 25 m or more away from
\* that step emits no announcement and leaves the session driving; arrival is
\* announced only by a fix under 25 m from the step.
C22_OneStepArrival ==
  [][(N = 1 /\ FixStep /\ ValidFix(ev'.fix) /\ isDriving
      /\ DistToOnly(ev'.fix) >= 25)
       => (ev'.said = <<>> /\ isDriving' /\ ~Emitted(Finished))]_vars

-----------------------------------------------------------------------------
\* Step advance

\* the fix f is valid, S[i+1] has a valid approach coordinate and their
\* rounded distance is below 25 m
Within25(i, f) ==
  /\ i < N - 1
  /\ ValidFix(f)
  /\ HasTarget(i)
  /\ DistTo(i, f.latitude, f.longitude) < 25

\* C23: a processed fix increments the step index by exactly one iff the
\* index i is below N-1, the fix and the approach coordinate of S[i+1] are
\* valid and their rounded distance is below 25 m; the advance leaves the
\* record untouched, and a fix measures its distance to S[i+1] of the
\* current index.
C23_AdvanceIff ==
  [][FixStep
       => /\ (stepIndex' = stepIndex + 1) <=> Within25(stepIndex, ev'.fix)
          /\ stepIndex' \in {stepIndex, stepIndex + 1}
          /\ (stepIndex' = stepIndex + 1 => announcedRef' = announcedRef)
          /\ (ValidFix(ev'.fix) /\ HasTarget(stepIndex)
                => distanceToNext' = DistTo(stepIndex, ev'.fix.latitude,
                                            ev'.fix.longitude))]_vars

-----------------------------------------------------------------------------
\* Simulation over a polyline with points outside the coordinate range

SkipInit ==
  /\ route = RouteOffMap
  /\ geoSupported = FALSE
  /\ speechOn = FALSE
  /\ Mount

SkipNext == Start \/ stopDrive \/ Effect \/ Frame

SkipSpec == SkipInit /\ [][SkipNext]_vars

\* a valid coordinate: a pair of finite numbers in range
ValidCoord(p) ==
  /\ isSafeCoordinate(p)
  /\ Abs(p[1]) <= 90 * 1111949
  /\ Abs(p[2]) <= 180 * 10000

\* the segment the cursor is on
CurIdx == progressRef \div PScale

\* the cursor is on a segment, before the end of the path, and an endpoint of
\* the segment is not a valid coordinate
OnInvalidSegment ==
  /\ Len(routePoints) >= 2
  /\ progressRef < (Len(routePoints) - 1) * PScale - PScale \div 1000
  /\ (~ValidCoord(routePoints[CurIdx + 1]) \/ ~ValidCoord(routePoints[CurIdx + 2]))

\* C24: a simulation tick whose current segment has an invalid endpoint
\* moves the cursor to the start of the next segment, emits no fix (position,
\* heading and step index unchanged) and schedules another tick.
C24_SkipInvalidSegment ==
  [][(ev'.op \in {"frame", "tick"} /\ isDriving /\ OnInvalidSegment)
       => /\ progressRef' = (CurIdx + 1) * PScale
          /\ UNCHANGED <<vehiclePos, heading, stepIndex>>
          /\ ev'.op = "frame"
          /\ rafs' # {}]_vars

-----------------------------------------------------------------------------
\* The viewport follows the fixes

\* this step runs the tracking effect of MapController for the render that
\* followed a live fix
TrackStep ==
  /\ ev.op = "fix"
  /\ camera.deps # CamDeps
  /\ camera'.deps = CamDeps

\* the zoom the claim gives for a speed in 1e-2 km/h
ZoomOf(s) ==
  CASE s < 3000 -> 18
    [] s >= 3000 /\ s < 6000 -> 17
    [] s >= 6000 /\ s < 9000 -> 16
    [] s >= 9000 -> 15

\* C25: while driving, the tracking effect that follows a valid fix sets the
\* viewport to the fix's coordinate with the zoom of the current speed (18
\* below 30 km/h, 17 below 60, 16 below 90, 15 otherwise), a zoom no larger
\* than that of any lower speed; when not driving, the viewport stays.
C25_ViewportFollows ==
  [][(TrackStep /\ ValidFix(ev.fix))
       => IF isDriving
          THEN /\ camera'.center = <<ev.fix.latitude, ev.fix.longitude>>
               /\ camera'.zoom = ZoomOf(speed)
               /\ \A s \in {0, 1800, 3600, 7200, 10800} :
                    s <= speed => ZoomOf(s) >= camera'.zoom
          ELSE camera'.center = camera.center /\ camera'.zoom = camera.zoom]_vars

\* a fix at 72 km/h has been followed to its coordinate with zoom 16
C25_Witness ==
  /\ isDriving /\ ev.op = "fix" /\ ValidFix(ev.fix)
  /\ speed = 7200
  /\ camera.deps = CamDeps
  /\ camera.center = <<ev.fix.latitude, ev.fix.longitude>>
  /\ camera.zoom = 16
  /\ camera.by = "effect"
  /\ ~camera.timer

\* the fix that announced arrival left the viewport where it was
C25_WitnessStopped ==
  /\ ~isDriving /\ ev.op = "fix" /\ Finished \in announcedRef
  /\ camera.deps = CamDeps
  /\ camera.center # vehiclePos

-----------------------------------------------------------------------------
\* Range of the step index

\* C26: in every reachable state 0 <= stepIndex <= max(N-1, 0), also when a
\* callback that captured the step index before an advance runs again before
\* the lifecycle effect has re-created it.
C26_IndexInRange ==
  /\ 0 <= stepIndex
  /\ stepIndex <= Max(N - 1, 0)

-----------------------------------------------------------------------------
\* A step without approach coordinate

\* C27: while the step index is i < N-1 and S[i+1] has no valid approach
\* coordinate, the index does not change, whatever fix is processed, and the
\* driving flag is cleared only by an explicit stop.
C27_StuckAtInvalidTarget ==
  [][(stepIndex < N - 1 /\ ~HasTarget(stepIndex))
       => /\ stepIndex' = stepIndex
          /\ (gpsMode = "real" /\ isDriving /\ ~isDriving' => ev'.op = "stop")]_vars

-----------------------------------------------------------------------------
\* Simulation over a path of fewer than 2 points

\* this step runs an animation frame callback
SimStep == ev'.op \in {"frame", "frame-end", "tick"} /\ ~SpeechDone

\* C28: in simulated mode with a built path of fewer than 2 points a tick
\* emits no fix, schedules no further tick and keeps the driving flag, and
\* the driving flag of the session is cleared only by an explicit stop.
C28_ShortPathIdle ==
  [][(gpsMode = "simulated" /\ Len(routePoints) < 2)
       => /\ SimStep
             => /\ UNCHANGED <<vehiclePos, heading, speed, stepIndex, distanceToNext,
                               isDriving, progressRef, announcedRef, emitCount>>
                /\ ev'.said = <<>>
                /\ rafs' \subseteq rafs /\ rafs' # rafs
          /\ (isDriving /\ ~isDriving' => ev'.op = "stop")]_vars

\* the only frame of a simulated session on a one-step route has run: the
\* session is driving, nothing is scheduled and nothing has moved
C28_Witness ==
  /\ route = RouteOne /\ gpsMode = "simulated" /\ isDriving
  /\ ev.op = "frame" /\ effDeps = Deps
  /\ rafs = {} /\ progressRef = 0 /\ stepIndex = 0
  /\ Finished \notin announcedRef

-----------------------------------------------------------------------------
\* One location watch per live session

\* a live session is under way and its watch has been created
LiveConnected ==
  /\ isDriving /\ gpsMode = "real"
  /\ effDeps.isDriving /\ effDeps.gpsMode = "real"
  /\ watchIdRef

\* this step is a run of the lifecycle effect that calls watchPosition and
\* speak("GPS Conectado. Iniciando guia.")
Connects == effDeps' # effDeps /\ ev'.op = "effect" /\ ev'.said # <<>>

\* C29: within one live driving session the location watch is created once
\* and the "GPS connected" notice is spoken once: once the session has its
\* watch, no run of the lifecycle effect creates a watch or speaks the notice
\* again, however the fixes change the speed or the step index.
C29_OneWatchPerSession ==
  [][LiveConnected => ~Connects]_vars

-----------------------------------------------------------------------------
\* How a session ends

\* this step clears the driving flag and is not the stop button's
EndsByItself == isDriving /\ ~isDriving' /\ ev'.op # "stop"

\* C30: whenever the driving flag is cleared without an explicit stop, the
\* arrival announcement has been recorded.
C30_EndsOnlyByArrival ==
  [][EndsByItself => Finished \in announcedRef']_vars

====
